---- MODULE Spec2Model ----
(***************************************************************************)
(* Model of the two chunked binary exporters of the repository:            *)
(*   attached_assets/convert_vector_database_1761128315212.py  (ScriptA)   *)
(*   scripts/convert-pickle-to-binary.py                       (ScriptB)   *)
(* One behaviour is one run of one script's main() over one pickled        *)
(* container and one output location.                                      *)
(***************************************************************************)
EXTENDS Integers, Sequences, FiniteSets, TLC

\* ---------------------------------------------------------------- bounds
MaxN == 4           \* longest keyword list and tallest matrix of an input
MaxDim == 2         \* widest embedding matrix of an input
MaxChunkSize == 2   \* largest chunk_size
MaxPattern == 1     \* the input matrices are numbered 0..MaxPattern
NumVals == 8        \* float64 values of the model are 0..NumVals-1

ScriptA == "convert_vector_database"
ScriptB == "convert-pickle-to-binary"

\* CHUNK_SIZE = 2000 and EMBEDDING_DIM = 384 in the source; the model scales
\* both to the bounds so that several chunks fit within MaxN keywords.
CHUNK_SIZE == MaxChunkSize
EMBEDDING_DIM == MaxDim

Min(a, b) == IF a < b THEN a ELSE b

\* ---------------------------------------------------------------- inputs
Words == <<"a", "b", "c">>

\* The keyword lists of the inputs: two orderings (q) of every length n.
KeywordSeq(q, n) == [i \in 1..n |-> Words[(((i - 1) * (q + 1) + q) % 3) + 1]]

\* The embedding matrices of the inputs: r rows of d float64 values.
Matrix(p, r, d) == [i \in 1..r |-> [j \in 1..d |-> (p + 3 * (i - 1) + (j - 1)) % NumVals]]

\* The pickled containers: keywords and an embeddings array of shape
\* (Len(embeddings), dim); the row count is free of the keyword count, as
\* pickle.load checks neither. keywords_df is optional.
Databases ==
    { [keywords |-> KeywordSeq(q, n), embeddings |-> Matrix(p, r, d), dim |-> d, has_df |-> df] :
        q \in 0..1, n \in 0..MaxN, p \in 0..MaxPattern,
        r \in 0..MaxN, d \in 1..MaxDim, df \in BOOLEAN }

Shape(embeddings, dim) == <<Len(embeddings), dim>>

\* ------------------------------------------------------- numpy / python
\* Mutant of Slice: the end index taken as inclusive.
SliceInclusive(s, a, b) == SubSeq(s, Min(a, Len(s)) + 1, Min(b + 1, Len(s)))

\* s[a:b] of a Python list or of the rows of an array, 0 <= a, 0 <= b.
Slice(s, a, b) == SubSeq(s, Min(a, Len(s)) + 1, Min(b, Len(s)))

\* astype(np.float32) of one value: the float64 grid 0..NumVals-1 is twice as
\* fine as the float32 grid, so the low bit is rounded away.
Float32(v) == (v \div 2) * 2

AsFloat32(rows) == [i \in 1..Len(rows) |-> [j \in 1..Len(rows[i]) |-> Float32(rows[i][j])]]

\* The 4 little-endian bytes of one float32 value.
Float32Bytes(w) == << w % 256, (w \div 256) % 256, (w \div 65536) % 256, (w \div 16777216) % 256 >>

RECURSIVE RowBytes(_)
RowBytes(row) == IF row = << >> THEN << >> ELSE Float32Bytes(Head(row)) \o RowBytes(Tail(row))

\* ndarray.tobytes(): row-major, no header, no padding.
RECURSIVE ToBytes(_)
ToBytes(rows) == IF rows = << >> THEN << >> ELSE RowBytes(Head(rows)) \o ToBytes(Tail(rows))

Digits == <<"0", "1", "2", "3", "4", "5", "6", "7", "8", "9">>

\* f"{n:0{width}d}" for 0 <= n
RECURSIVE ZeroPad(_, _)
ZeroPad(n, width) ==
    IF n < 10 /\ width <= 1 THEN Digits[n + 1]
    ELSE IF n < 10 THEN "0" \o ZeroPad(n, width - 1)
    ELSE ZeroPad(n \div 10, width - 1) \o Digits[(n % 10) + 1]

\* f"chunk_{chunk_idx:02d}.bin" (ScriptA), f'chunk_{chunk_id:03d}.bin' (ScriptB)
ChunkFilename(s, chunk_id) == "chunk_" \o ZeroPad(chunk_id, IF s = ScriptA THEN 2 ELSE 3) \o ".bin"

\* ---------------------------------------------------- the chunking code
\* Mutants of NumChunks: rounding down, and one chunk too many.
NumChunksFloor(total_keywords, cs) == total_keywords \div cs

NumChunksPlusOne(total_keywords, cs) == (total_keywords \div cs) + 1

\* Mutant of StartIdx: one-based.
StartIdxOneBased(chunk_id, cs) == chunk_id * cs + 1

\* (total_keywords + chunk_size - 1) // chunk_size
NumChunks(total_keywords, cs) == (total_keywords + cs - 1) \div cs

StartIdx(chunk_id, cs) == chunk_id * cs

EndIdx(chunk_id, cs, total_keywords) == Min(StartIdx(chunk_id, cs) + cs, total_keywords)

\* The bytes written to the chunk's file.
ChunkBytes(db, cs, chunk_id) ==
    ToBytes(AsFloat32(Slice(db.embeddings, StartIdx(chunk_id, cs),
                            EndIdx(chunk_id, cs, Len(db.keywords)))))

\* chunk_info of ScriptA: keyword_count is len(chunk_keywords).
ChunkInfoA(db, cs, chunk_id) ==
    LET start_idx == StartIdx(chunk_id, cs)
        end_idx == EndIdx(chunk_id, cs, Len(db.keywords))
        chunk_keywords == Slice(db.keywords, start_idx, end_idx)
    IN  [chunk_id |-> chunk_id,
         filename |-> ChunkFilename(ScriptA, chunk_id),
         start_index |-> start_idx,
         end_index |-> end_idx,
         keyword_count |-> Len(chunk_keywords),
         keywords |-> chunk_keywords]

\* The chunk record of ScriptB: end_index is stored as end_index - 1.
ChunkInfoB(db, cs, chunk_id) ==
    LET start_index == StartIdx(chunk_id, cs)
        end_index == EndIdx(chunk_id, cs, Len(db.keywords))
        chunk_keyword_count == end_index - start_index
    IN  [chunk_id |-> chunk_id,
         start_index |-> start_index,
         end_index |-> end_index - 1,
         keyword_count |-> chunk_keyword_count,
         file_path |-> ChunkFilename(ScriptB, chunk_id)]

ChunkInfo(s, db, cs, chunk_id) ==
    IF s = ScriptA THEN ChunkInfoA(db, cs, chunk_id) ELSE ChunkInfoB(db, cs, chunk_id)

\* Mutant of KeywordIndexEntries: local_index holds the global position.
KeywordIndexEntriesGlobal(db, cs, chunk_id) ==
    LET start_index == chunk_id * cs
        end_index == Min(start_index + cs, Len(db.keywords))
    IN  [i \in 1..(end_index - start_index) |->
            [keyword |-> db.keywords[start_index + (i - 1) + 1],
             chunk_id |-> chunk_id,
             local_index |-> start_index + (i - 1)]]

\* The entries ScriptB appends to keyword_index for one chunk.
KeywordIndexEntries(db, cs, chunk_id) ==
    LET start_index == StartIdx(chunk_id, cs)
        end_index == EndIdx(chunk_id, cs, Len(db.keywords))
    IN  [i \in 1..(end_index - start_index) |->
            [keyword |-> db.keywords[start_index + (i - 1) + 1],
             chunk_id |-> chunk_id,
             local_index |-> i - 1]]

\* chunk_metadata of ScriptA (lines 59-66, with the chunks appended).
MetadataA(db, cs, recs) ==
    [version |-> "1.0.0",
     total_keywords |-> Len(db.keywords),
     embedding_dimension |-> db.dim,
     chunk_size |-> cs,
     num_chunks |-> NumChunks(Len(db.keywords), cs),
     chunks |-> recs]

\* metadata of ScriptB (lines 87-95); created_at is the time of the run.
MetadataB(db, cs, recs, index) ==
    [version |-> "3.0.0",
     created_at |-> "now",
     total_keywords |-> Len(db.keywords),
     embedding_dimensions |-> EMBEDDING_DIM,
     chunk_size |-> cs,
     chunks |-> recs,
     keywords |-> index]

\* ------------------------------------------------------ the file system
NoManifest == [present |-> FALSE, truncated |-> FALSE, doc |-> << >>]

WholeManifest(doc) == [present |-> TRUE, truncated |-> FALSE, doc |-> doc]

\* A metadata file opened with 'w' whose json.dump did not finish.
TruncatedManifest == [present |-> TRUE, truncated |-> TRUE, doc |-> << >>]

\* fs with the file `name` holding `bytes`.
WriteFile(fs, name, bytes) ==
    [f \in (DOMAIN fs) \cup {name} |-> IF f = name THEN bytes ELSE fs[f]]

\* What a completed earlier run of the same script left in the output
\* location: the records, the keyword index, the files and the manifest.
RECURSIVE AllRecords(_, _, _, _)
AllRecords(s, db, cs, n) ==
    IF n = 0 THEN << >> ELSE Append(AllRecords(s, db, cs, n - 1), ChunkInfo(s, db, cs, n - 1))

RECURSIVE AllIndex(_, _, _)
AllIndex(db, cs, n) ==
    IF n = 0 THEN << >> ELSE AllIndex(db, cs, n - 1) \o KeywordIndexEntries(db, cs, n - 1)

RECURSIVE AllFiles(_, _, _, _)
AllFiles(s, db, cs, n) ==
    IF n = 0 THEN << >>
    ELSE WriteFile(AllFiles(s, db, cs, n - 1), ChunkFilename(s, n - 1), ChunkBytes(db, cs, n - 1))

EarlierDatabase ==
    [keywords |-> <<"x", "y", "z">>, embeddings |-> Matrix(1, 3, EMBEDDING_DIM),
     dim |-> EMBEDDING_DIM, has_df |-> TRUE]

EarlierFiles(s, cs) == AllFiles(s, EarlierDatabase, cs, NumChunks(3, cs))

EarlierManifest(s, cs) ==
    LET n == NumChunks(3, cs)
    IN  WholeManifest(IF s = ScriptA
                      THEN MetadataA(EarlierDatabase, cs, AllRecords(s, EarlierDatabase, cs, n))
                      ELSE MetadataB(EarlierDatabase, cs, AllRecords(s, EarlierDatabase, cs, n),
                                     AllIndex(EarlierDatabase, cs, n)))

\* ----------------------------------------------------------------- state
VARIABLES
    script,         \* which script runs
    path_exists,    \* whether pickle_path exists
    database,       \* the container pickle.load returns
    chunk_size,     \* chunk_size of ScriptA, CHUNK_SIZE of ScriptB
    pc,             \* Idle, Loading, Writing, Json, Csv, Done, Failed
    chunk_idx,      \* the loop variable of the chunk loop
    chunks,         \* chunk_metadata["chunks"] / chunks, in memory
    keyword_index,  \* keyword_index of ScriptB, in memory
    files,          \* the chunk files of the output directory: name -> bytes
    manifest,       \* metadata.json / embeddings_metadata.json
    outputs,        \* the other files this run wrote (JSON, CSV, npy)
    written,        \* the chunk files this run opened for writing
    torn,           \* the chunk files whose last write did not finish
    export_done,    \* the chunked export of this run wrote its manifest
    raised,         \* the unhandled exception, "none" if none
    exit_code,      \* -1 while running, then the process's exit status
    summary         \* the closing summary was printed

vars == <<script, path_exists, database, chunk_size, pc, chunk_idx, chunks,
          keyword_index, files, manifest, outputs, written, torn, export_done,
          raised, exit_code, summary>>

input == <<script, path_exists, database, chunk_size>>

Init ==
    /\ script \in {ScriptA, ScriptB}
    /\ path_exists \in BOOLEAN
    /\ database \in Databases
    /\ chunk_size \in IF script = ScriptA THEN 1..MaxChunkSize ELSE {CHUNK_SIZE}
    /\ \E stale \in BOOLEAN :
          /\ files = IF stale THEN EarlierFiles(script, chunk_size) ELSE << >>
          /\ manifest = IF stale THEN EarlierManifest(script, chunk_size) ELSE NoManifest
    /\ pc = "Idle"
    /\ chunk_idx = 0
    /\ chunks = << >>
    /\ keyword_index = << >>
    /\ outputs = {}
    /\ written = {}
    /\ torn = {}
    /\ export_done = FALSE
    /\ raised = "none"
    /\ exit_code = -1
    /\ summary = FALSE

\* An unhandled exception ends the process with a traceback and status 1.
Raise(exc) ==
    /\ pc' = "Failed"
    /\ raised' = exc
    /\ exit_code' = 1

\* main(), up to the existence test of pickle_path.
\* ScriptA prints an error and returns; ScriptB raises FileNotFoundError.
CheckPath ==
    /\ pc = "Idle"
    /\ IF path_exists
       THEN /\ pc' = "Loading"
            /\ UNCHANGED <<raised, exit_code>>
       ELSE IF script = ScriptA
            THEN /\ pc' = "Done"
                 /\ exit_code' = 0
                 /\ UNCHANGED raised
            ELSE Raise("FileNotFoundError")
    /\ UNCHANGED <<input, chunk_idx, chunks, keyword_index, files, manifest,
                   outputs, written, torn, export_done, summary>>

\* pickle.load and what follows it up to the chunk loop. ScriptA
\* (load_pickle_database) checks nothing; ScriptB compares embeddings.shape
\* with (total_keywords, EMBEDDING_DIM) and raises ValueError.
Load ==
    /\ pc = "Loading"
    /\ IF script = ScriptB
          /\ Shape(database.embeddings, database.dim) # <<Len(database.keywords), EMBEDDING_DIM>>
       THEN Raise("ValueError")
       ELSE /\ pc' = "Writing"
            /\ UNCHANGED <<raised, exit_code>>
    /\ chunk_idx' = 0
    /\ chunks' = << >>
    /\ keyword_index' = << >>
    /\ UNCHANGED <<input, files, manifest, outputs, written, torn, export_done, summary>>

\* One iteration of the chunk loop: the file is written and closed, then the
\* record (and ScriptB's index entries) appended.
WriteChunk ==
    /\ pc = "Writing"
    /\ chunk_idx < NumChunks(Len(database.keywords), chunk_size)
    /\ files' = WriteFile(files, ChunkFilename(script, chunk_idx),
                          ChunkBytes(database, chunk_size, chunk_idx))
    /\ written' = written \cup {ChunkFilename(script, chunk_idx)}
    /\ torn' = torn \ {ChunkFilename(script, chunk_idx)}
    /\ chunks' = Append(chunks, ChunkInfo(script, database, chunk_size, chunk_idx))
    /\ keyword_index' = IF script = ScriptB
                        THEN keyword_index \o KeywordIndexEntries(database, chunk_size, chunk_idx)
                        ELSE keyword_index
    /\ chunk_idx' = chunk_idx + 1
    /\ UNCHANGED <<input, pc, manifest, outputs, export_done, raised, exit_code, summary>>

\* The write of a chunk file fails: open() raises and the file is as before,
\* or write() raises after open(..., 'wb') emptied the file and a proper
\* prefix of the bytes went out.
WriteChunkFails ==
    /\ pc = "Writing"
    /\ chunk_idx < NumChunks(Len(database.keywords), chunk_size)
    /\ LET name == ChunkFilename(script, chunk_idx)
           bytes == ChunkBytes(database, chunk_size, chunk_idx)
       IN  \/ UNCHANGED <<files, written, torn>>
           \/ /\ \E k \in 0..(Len(bytes) - 1) : files' = WriteFile(files, name, SubSeq(bytes, 1, k))
              /\ written' = written \cup {name}
              /\ torn' = torn \cup {name}
    /\ Raise("OSError")
    /\ UNCHANGED <<input, chunk_idx, chunks, keyword_index, manifest, outputs,
                   export_done, summary>>

\* After the loop: json.dump of the metadata. ScriptA goes on to the JSON
\* export; ScriptB prints its summary and ends.
SaveMetadata ==
    /\ pc = "Writing"
    /\ chunk_idx = NumChunks(Len(database.keywords), chunk_size)
    /\ manifest' = WholeManifest(IF script = ScriptA
                                 THEN MetadataA(database, chunk_size, chunks)
                                 ELSE MetadataB(database, chunk_size, chunks, keyword_index))
    /\ export_done' = TRUE
    /\ IF script = ScriptA
       THEN /\ pc' = "Json"
            /\ UNCHANGED <<exit_code, summary>>
       ELSE /\ pc' = "Done"
            /\ exit_code' = 0
            /\ summary' = TRUE
    /\ UNCHANGED <<input, chunk_idx, chunks, keyword_index, files, outputs, written, torn,
                   raised>>

\* The metadata write fails: at open() (file as before) or during json.dump
\* (file cut short).
SaveMetadataFails ==
    /\ pc = "Writing"
    /\ chunk_idx = NumChunks(Len(database.keywords), chunk_size)
    /\ \/ UNCHANGED manifest
       \/ manifest' = TruncatedManifest
    /\ Raise("OSError")
    /\ UNCHANGED <<input, chunk_idx, chunks, keyword_index, files, outputs, written, torn,
                   export_done, summary>>

\* convert_to_json_format of ScriptA.
ConvertToJson ==
    /\ pc = "Json"
    /\ \/ /\ outputs' = outputs \cup {"vector_database.json"}
          /\ pc' = "Csv"
          /\ UNCHANGED <<raised, exit_code>>
       \/ /\ UNCHANGED outputs
          /\ Raise("OSError")
    /\ UNCHANGED <<input, chunk_idx, chunks, keyword_index, files, manifest, written, torn,
                   export_done, summary>>

\* convert_to_csv_and_binary of ScriptA, then the closing prints of main().
\* database['keywords_df'] raises KeyError when the container has none.
ConvertToCsv ==
    /\ pc = "Csv"
    /\ IF ~database.has_df
       THEN /\ UNCHANGED <<outputs, summary>>
            /\ Raise("KeyError")
       ELSE \/ /\ outputs' = outputs \cup {"keywords.csv", "embeddings.npy", "csv_metadata.json"}
               /\ pc' = "Done"
               /\ exit_code' = 0
               /\ summary' = TRUE
               /\ UNCHANGED raised
            \/ /\ UNCHANGED <<outputs, summary>>
               /\ Raise("OSError")
    /\ UNCHANGED <<input, chunk_idx, chunks, keyword_index, files, manifest, written, torn,
                   export_done>>

Next ==
    \/ CheckPath
    \/ Load
    \/ WriteChunk
    \/ WriteChunkFails
    \/ SaveMetadata
    \/ SaveMetadataFails
    \/ ConvertToJson
    \/ ConvertToCsv

Spec == Init /\ [][Next]_vars

\* ================================================================ claims
N == Len(database.keywords)

CeilDiv(n, c) == IF n % c = 0 THEN n \div c ELSE (n \div c) + 1

\* The file name a chunk record carries.
RecFile(rec) == IF script = ScriptA THEN rec.filename ELSE rec.file_path

\* The embedding dimension a manifest records.
ManifestDim(doc) ==
    IF script = ScriptA THEN doc.embedding_dimension ELSE doc.embedding_dimensions

\* The dimension this run records in its manifest.
RunDim == IF script = ScriptA THEN database.dim ELSE EMBEDDING_DIM

RECURSIVE SumCounts(_)
SumCounts(recs) == IF recs = << >> THEN 0 ELSE Head(recs).keyword_count + SumCounts(Tail(recs))

\* A reader of a chunk file: 4 little-endian bytes per value, d values per row.
ReadValue(bytes, at) ==
    bytes[at + 1] + 256 * bytes[at + 2] + 65536 * bytes[at + 3] + 16777216 * bytes[at + 4]

FromBytes(bytes, d) ==
    [i \in 1..(Len(bytes) \div (4 * d)) |->
        [j \in 1..d |-> ReadValue(bytes, ((i - 1) * d + (j - 1)) * 4)]]

\* The rows of the chunk files of recs, read in the order of recs.
RECURSIVE ReadBack(_, _)
ReadBack(recs, d) ==
    IF recs = << >> THEN << >>
    ELSE FromBytes(files[RecFile(Head(recs))], d) \o ReadBack(Tail(recs), d)

\* The per-chunk keyword lists of ScriptA's records, concatenated.
RECURSIVE ConcatKeywords(_)
ConcatKeywords(recs) ==
    IF recs = << >> THEN << >> ELSE Head(recs).keywords \o ConcatKeywords(Tail(recs))

\* The records of a manifest are in ascending chunk_id order, from 0.
Ascending(recs) == \A k \in 1..Len(recs) : recs[k].chunk_id = k - 1

\* ---- C1: a completed chunked export records ceil(N / chunk_size) chunks,
\* and their keyword_count values sum to N.
C1_ChunkCountAndSum ==
    export_done =>
        /\ Len(manifest.doc.chunks) = CeilDiv(N, chunk_size)
        /\ SumCounts(manifest.doc.chunks) = N

C1_Witness ==
    /\ export_done
    /\ N = chunk_size + 1
    /\ chunk_size >= 2
    /\ Len(manifest.doc.chunks) = 2

\* ---- C2: whenever the manifest file is present and not marked incomplete,
\* every chunk file it references is present and fully written.
C2_ManifestNeverAheadOfChunks ==
    (manifest.present /\ ~manifest.truncated) =>
        \A k \in 1..Len(manifest.doc.chunks) :
            /\ RecFile(manifest.doc.chunks[k]) \in DOMAIN files
            /\ RecFile(manifest.doc.chunks[k]) \notin torn

\* ---- C3: after a completed export the recorded keywords, concatenated in
\* ascending chunk_id order (ScriptA: the per-chunk lists; ScriptB: the flat
\* index read in order), are exactly the input keyword sequence.
C3_KeywordOrderPreserved ==
    export_done =>
        /\ Ascending(manifest.doc.chunks)
        /\ IF script = ScriptA
           THEN ConcatKeywords(manifest.doc.chunks) = database.keywords
           ELSE [g \in 1..Len(manifest.doc.keywords) |-> manifest.doc.keywords[g].keyword]
                    = database.keywords

C3_Witness ==
    /\ export_done
    /\ script = ScriptA
    /\ N >= 3
    /\ Len(manifest.doc.chunks) >= 2
    /\ database.keywords[1] # database.keywords[2]

\* ---- C4: after a completed export, the chunk files read back in ascending
\* chunk_id order give the rows of the input matrix, as float32.
C4_RoundTrip ==
    export_done =>
        ReadBack(manifest.doc.chunks, ManifestDim(manifest.doc)) = AsFloat32(database.embeddings)

\* ---- C5: the file of every chunk the run has recorded is exactly
\* keyword_count * D * 4 bytes long.
C5_ChunkByteLength ==
    \A k \in 1..Len(chunks) :
        Len(files[RecFile(chunks[k])]) = chunks[k].keyword_count * RunDim * 4

\* ---- C6: a loaded container whose row count differs from its keyword count
\* fails at the load stage: the run never reaches the writing stage and
\* writes no chunk file and no manifest.
C6_RowMismatchFailsAtLoad ==
    (path_exists /\ Len(database.embeddings) # N) =>
        /\ pc \in {"Idle", "Loading", "Failed"}
        /\ pc = "Failed" => raised = "ValueError"
        /\ written = {}
        /\ ~export_done

\* ---- C7: a run whose input path does not exist raises a not-found error
\* and exits non-zero; every run that has ended is Done with the summary
\* printed or Failed with an unhandled error.
C7_MissingPathFails ==
    exit_code # -1 =>
        /\ ~path_exists => (pc = "Failed" /\ raised = "FileNotFoundError" /\ exit_code # 0)
        /\ \/ (pc = "Done" /\ exit_code = 0 /\ summary)
           \/ (pc = "Failed" /\ exit_code # 0 /\ raised # "none")

\* ---- C8: every chunk but the last holds chunk_size keywords, the last
\* between 1 and chunk_size; N = 0 gives no chunk file, total_keywords 0 and
\* an empty chunk list; N a multiple of chunk_size gives no short chunk;
\* N = k * chunk_size + 1 gives a final chunk of one keyword.
C8_ChunkSizeBoundaries ==
    export_done =>
        LET recs == manifest.doc.chunks
            last == Len(recs)
        IN  /\ \A k \in 1..last :
                  /\ k < last => recs[k].keyword_count = chunk_size
                  /\ k = last => recs[k].keyword_count \in 1..chunk_size
            /\ N = 0 => (written = {} /\ manifest.doc.total_keywords = 0 /\ recs = << >>)
            /\ N % chunk_size = 0 => \A k \in 1..last : recs[k].keyword_count = chunk_size
            /\ (N >= 1 /\ (N - 1) % chunk_size = 0) => recs[last].keyword_count = 1

C8_Witness ==
    /\ export_done
    /\ chunk_size >= 2
    /\ N = chunk_size + 1
    /\ manifest.doc.chunks[2].keyword_count = 1
    /\ manifest.doc.chunks[1].keyword_count = chunk_size

\* ---- C9 as stated: in every manifest written, start_index and end_index
\* are the half-open range [chunk_id * chunk_size, min(start + chunk_size, N)),
\* keyword_count is end_index - start_index, and each end_index is the next
\* chunk's start_index.
C9_HalfOpenRanges ==
    export_done =>
        LET recs == manifest.doc.chunks
        IN  \A k \in 1..Len(recs) :
                /\ recs[k].start_index = recs[k].chunk_id * chunk_size
                /\ recs[k].end_index = Min(recs[k].start_index + chunk_size, N)
                /\ recs[k].keyword_count = recs[k].end_index - recs[k].start_index
                /\ k < Len(recs) => recs[k].end_index = recs[k + 1].start_index

\* ---- C9 amended: the ranges are contiguous and cover [0, N); ScriptA stores
\* the exclusive end, ScriptB the inclusive end (the last index of the chunk).
C9_RangesPerScript ==
    export_done =>
        LET recs == manifest.doc.chunks
            incl == IF script = ScriptB THEN 1 ELSE 0
        IN  /\ \A k \in 1..Len(recs) :
                  /\ recs[k].start_index = recs[k].chunk_id * chunk_size
                  /\ recs[k].end_index = Min(recs[k].start_index + chunk_size, N) - incl
                  /\ recs[k].keyword_count = recs[k].end_index - recs[k].start_index + incl
                  /\ k < Len(recs) => recs[k].end_index + incl = recs[k + 1].start_index
            /\ recs # << >> => (recs[1].start_index = 0 /\ recs[Len(recs)].end_index + incl = N)

C9_Witness ==
    /\ export_done
    /\ script = ScriptB
    /\ Len(manifest.doc.chunks) >= 2
    /\ manifest.doc.chunks[1].end_index + 1 = manifest.doc.chunks[2].start_index

\* ---- C10: ScriptB's flat keyword index has N entries; entry g is
\* {keywords[g], g div CHUNK_SIZE, g mod CHUNK_SIZE}, names an existing chunk
\* record, has local_index below that chunk's keyword_count, and row
\* local_index of that chunk's file is the keyword's embedding as float32.
C10_FlatKeywordIndex ==
    (export_done /\ script = ScriptB) =>
        LET doc == manifest.doc
        IN  /\ Len(doc.keywords) = N
            /\ \A g \in 0..(N - 1) :
                  LET e == doc.keywords[g + 1]
                  IN  /\ e = [keyword |-> database.keywords[g + 1],
                              chunk_id |-> g \div CHUNK_SIZE,
                              local_index |-> g % CHUNK_SIZE]
                      /\ \E k \in 1..Len(doc.chunks) :
                            /\ doc.chunks[k].chunk_id = e.chunk_id
                            /\ e.local_index \in 0..(doc.chunks[k].keyword_count - 1)
                            /\ FromBytes(files[doc.chunks[k].file_path],
                                         doc.embedding_dimensions)[e.local_index + 1]
                                 = AsFloat32(database.embeddings)[g + 1]

C10_Witness ==
    /\ export_done
    /\ script = ScriptB
    /\ N > CHUNK_SIZE
    /\ manifest.doc.keywords[N].chunk_id >= 1
    /\ Float32(database.embeddings[N][1]) # database.embeddings[N][1]

====
